---- MODULE Spec2Model ----
(***************************************************************************)
(* A model of the log-server storage engine: Store (length-prefixed frames *)
(* behind a buffered writer), Index (memory-mapped 12-byte entries),       *)
(* Segment (one Store + one Index) and Log (a vector of segments in one    *)
(* directory), together with the bulk reader (MultiReader of StoreReaders).*)
(* Files are modelled byte by byte; offsets and positions are 0-based as   *)
(* in the source, TLA+ sequences are 1-based.                              *)
(***************************************************************************)
EXTENDS Integers, Sequences, FiniteSets, TLC

VARIABLES
    config,     \* the Config handed to Log::new (before defaulting)
    disk,       \* the log directory: base offset -> the two files of a segment
    alive,      \* TRUE while a Log value exists in the process
    segments,   \* Log.segments
    active,     \* Log.active_segment_idx (None or a 0-based index)
    mr,         \* the MultiReader returned by Log::reader, or NoReader
    drained,    \* bytes the caller has drained from mr so far
    appended,   \* history: the successful appends ever made, in order
    ncalls,     \* history: the number of Log::append calls ever made
    last,       \* history: the last operation and its result
    onlyAppends,\* history: nothing but append, read and reader calls since Init
    ub,         \* history: an index entry was written past the end of its file
    tstore,     \* a Store on a file of its own (as in test_store), with its history
    tindex,     \* an Index on a file of its own (as in test_index), with its history
    lock,       \* Log.lock: the readers and the writer holding the RwLock
    calls       \* per caller, the Log method it is in and how far it has got

logvars == <<config, disk, alive, segments, active, mr, drained, appended, ncalls,
             last, onlyAppends, ub, lock, calls>>

vars == <<config, disk, alive, segments, active, mr, drained, appended, ncalls,
          last, onlyAppends, ub, tstore, tindex, lock, calls>>

(***************************************************************************)
(* Bounds of the model.                                                    *)
(***************************************************************************)
MaxAppends == 3
MaxBuf     == 16
NCallers   == 3

(***************************************************************************)
(* Program constants.                                                      *)
(***************************************************************************)
OFF_WIDTH   == 4
POS_WIDTH   == 8
ENTRY_WIDTH == OFF_WIDTH + POS_WIDTH
LEN_WIDTH   == 8
DefaultCap  == 1024

None     == -1
\* no MultiReader::read call made yet; at and zero are history: the queue when
\* the call began, and whether an earlier call on this reader returned 0
Idle     == [pc |-> "idle", n |-> 0, data |-> <<>>, at |-> <<>>, zero |-> FALSE]
NoReader == [open |-> FALSE, inner |-> <<>>, call |-> Idle]

\* sync::RwLock::new(()), and no caller inside a method of the Log
Callers  == 1..NCallers
Unlocked == [readers |-> 0, writer |-> FALSE]
NoCalls  == [t \in Callers |-> [op |-> "none", pc |-> "idle"]]

(***************************************************************************)
(* Inputs.                                                                 *)
(***************************************************************************)
Records    == { [value |-> <<>>,        offset |-> 0],
                [value |-> <<1, 2, 3>>, offset |-> 7] }
Configs    ==
    { [max_store_bytes |-> 15, max_index_bytes |-> 0,  initial_offset |-> 0],
      [max_store_bytes |-> 0,  max_index_bytes |-> 30, initial_offset |-> 2],
      [max_store_bytes |-> 0,  max_index_bytes |-> 24, initial_offset |-> 1] }

Min(a, b) == IF a < b THEN a ELSE b

(***************************************************************************)
(* Little-endian integers (u32::to_le_bytes, u64::from_le_bytes, ...).     *)
(***************************************************************************)
RECURSIVE to_le_bytes(_, _)
to_le_bytes(n, w) ==
    IF w = 0 THEN <<>> ELSE <<n % 256>> \o to_le_bytes(n \div 256, w - 1)

RECURSIVE from_le_bytes(_)
from_le_bytes(b) ==
    IF b = <<>> THEN 0 ELSE b[1] + 256 * from_le_bytes(Tail(b))

(***************************************************************************)
(* Record::encode / Record::decode: the proto3 wire format of              *)
(* message Record { bytes value = 1; uint64 offset = 2; }.                 *)
(***************************************************************************)
RECURSIVE Varint(_)
Varint(n) == IF n < 128 THEN <<n>> ELSE <<128 + (n % 128)>> \o Varint(n \div 128)

\* the value and the width of the varint at the head of b (width 0: malformed)
RECURSIVE ReadVarint(_)
ReadVarint(b) ==
    IF b = <<>> THEN [val |-> 0, width |-> 0]
    ELSE IF b[1] < 128 THEN [val |-> b[1], width |-> 1]
    ELSE LET r == ReadVarint(Tail(b))
         IN  IF r.width = 0 THEN r
             ELSE [val |-> (b[1] - 128) + 128 * r.val, width |-> r.width + 1]

DefaultRecord == [value |-> <<>>, offset |-> 0]

Encode(r) ==
    (IF r.value = <<>> THEN <<>> ELSE <<10>> \o Varint(Len(r.value)) \o r.value)
    \o (IF r.offset = 0 THEN <<>> ELSE <<16>> \o Varint(r.offset))

RECURSIVE DecodeInto(_, _)
DecodeInto(b, r) ==
    IF b = <<>> THEN [ok |-> TRUE, rec |-> r, err |-> ""]
    ELSE LET v    == ReadVarint(Tail(b))
             rest == SubSeq(b, 2 + v.width, Len(b))
         IN  IF v.width = 0 THEN [ok |-> FALSE, rec |-> DefaultRecord, err |-> "decode"]
             ELSE IF b[1] = 10 THEN
                 IF Len(rest) < v.val
                 THEN [ok |-> FALSE, rec |-> DefaultRecord, err |-> "decode"]
                 ELSE DecodeInto(SubSeq(rest, v.val + 1, Len(rest)),
                                 [r EXCEPT !.value = SubSeq(rest, 1, v.val)])
             ELSE IF b[1] = 16 THEN DecodeInto(rest, [r EXCEPT !.offset = v.val])
             ELSE [ok |-> FALSE, rec |-> DefaultRecord, err |-> "decode"]

Decode(b) == DecodeInto(b, DefaultRecord)

(***************************************************************************)
(* Store: a file of frames [len: u64 LE][payload] written through a        *)
(* BufWriter (st.buf holds what is not flushed yet) and read by pread.     *)
(* The file itself is a byte sequence kept in disk[base].store.            *)
(***************************************************************************)
StoreNew(bytes) == [size |-> Len(bytes), buf |-> <<>>]

\* faulty variant: the position is taken after the size has grown
StoreAppendPosAfter(st, p) ==
    LET w == Len(p) + LEN_WIDTH
    IN  [store |-> [size |-> st.size + w,
                    buf  |-> st.buf \o to_le_bytes(Len(p), LEN_WIDTH) \o p],
         w     |-> w,
         pos   |-> st.size + w]

StoreAppend(st, p) ==
    LET w == Len(p) + LEN_WIDTH
    IN  [store |-> [size |-> st.size + w,
                    buf  |-> st.buf \o to_le_bytes(Len(p), LEN_WIDTH) \o p],
         w     |-> w,
         pos   |-> st.size]

\* faulty variant: the bytes still in the BufWriter are not written out
FlushedBytesDropsBuf(st, bytes) == bytes

\* BufWriter::flush: the file after the flush, and the store after it
FlushedBytes(st, bytes) == bytes \o st.buf
FlushedStore(st)        == [st EXCEPT !.buf = <<>>]

StoreClose(st) == FlushedStore(st)

\* File::read_exact_at on the flushed file
read_exact_at(bytes, n, pos) ==
    IF pos + n <= Len(bytes)
    THEN [ok |-> TRUE,  bytes |-> SubSeq(bytes, pos + 1, pos + n)]
    ELSE [ok |-> FALSE, bytes |-> <<>>]

\* a length prefix of 2^24 or more: no file of the model is that long, and
\* vec![0; sz] may fail to allocate
TooBig(b) == \E i \in 4..Len(b) : b[i] # 0

\* Store::read on the flushed file; alloc: the length prefix read at pos is
\* too big
StoreRead(bytes, pos) ==
    LET Sized(hdr) ==
            IF ~hdr.ok THEN [ok |-> FALSE, bytes |-> <<>>, alloc |-> FALSE]
            ELSE IF TooBig(hdr.bytes) THEN [ok |-> FALSE, bytes |-> <<>>, alloc |-> TRUE]
            ELSE [ok    |-> pos + LEN_WIDTH + from_le_bytes(hdr.bytes) <= Len(bytes),
                  bytes |-> read_exact_at(bytes, from_le_bytes(hdr.bytes),
                                          pos + LEN_WIDTH).bytes,
                  alloc |-> FALSE]
    IN  Sized(read_exact_at(bytes, LEN_WIDTH, pos))

\* Store::read_at on the flushed file, with a buffer of n bytes
StoreReadAt(bytes, n, pos) == SubSeq(bytes, pos + 1, Min(pos + n, Len(bytes)))

(***************************************************************************)
(* Index: a file of 12-byte entries [off: u32 LE][pos: u64 LE] under a     *)
(* shared writable memory map of mmap_len bytes.  The file is sparse:      *)
(* f.ilen is its length, f.idata its bytes up to the last non-zero one.    *)
(* ix.tail holds bytes stored through the map past the end of the file.    *)
(***************************************************************************)
\* b without its trailing zero bytes
StripZeros(b) ==
    IF \A i \in 1..Len(b) : b[i] = 0 THEN <<>>
    ELSE SubSeq(b, 1, CHOOSE i \in 1..Len(b) :
                          b[i] # 0 /\ \A j \in (i + 1)..Len(b) : b[j] = 0)

FileByte(f, p) == IF p < Len(f.idata) THEN f.idata[p + 1] ELSE 0

\* File::set_len on the index file
SetLen(f, n) ==
    [f EXCEPT !.idata = StripZeros(SubSeq(f.idata, 1, Min(Len(f.idata), n))),
              !.ilen  = n]

\* bytes b stored at [p, p + Len(b)) of a byte sequence, zero padded
Patch(data, p, b) ==
    LET n == IF Len(data) > p + Len(b) THEN Len(data) ELSE p + Len(b)
    IN  [i \in 1..n |-> IF i > p /\ i <= p + Len(b) THEN b[i - p]
                        ELSE IF i <= Len(data) THEN data[i] ELSE 0]

MmapByte(ix, f, p) ==
    IF p < f.ilen THEN FileByte(f, p)
    ELSE IF p - f.ilen < Len(ix.tail) THEN ix.tail[p - f.ilen + 1]
    ELSE 0

\* faulty variant: the slice starts one byte late
MmapSliceShifted(ix, f, from, to) == [i \in 1..(to - from) |-> MmapByte(ix, f, from + i)]

\* &mmap[from..to]
MmapSlice(ix, f, from, to) == [i \in 1..(to - from) |-> MmapByte(ix, f, from + i - 1)]

\* faulty variant: size is taken from the last entry that is not zero
IndexNewSizeFromData(f, c) ==
    [index |-> [size     |-> ((Len(f.idata) + ENTRY_WIDTH - 1) \div ENTRY_WIDTH)
                                 * ENTRY_WIDTH,
                mmap_len |-> c.max_index_bytes,
                tail     |-> <<>>],
     file  |-> SetLen(f, c.max_index_bytes)]

\* Index::new: size is the length of the file as found; the file is then
\* extended (or cut) to max_index_bytes and mapped
IndexNew(f, c) ==
    [index |-> [size |-> f.ilen, mmap_len |-> c.max_index_bytes, tail |-> <<>>],
     file  |-> SetLen(f, c.max_index_bytes)]

\* faulty variant: a write that finds the map full still advances size
IndexWriteFullGrows(ix, f, off, pos, land) ==
    LET s     == ix.size + ENTRY_WIDTH
        entry == to_le_bytes(off, OFF_WIDTH) \o to_le_bytes(pos, POS_WIDTH)
    IN  IF ix.mmap_len < s
        THEN [res |-> "full", index |-> [ix EXCEPT !.size = s], file |-> f, ub |-> FALSE]
        ELSE IF s <= f.ilen
        THEN [res   |-> "ok",
              index |-> [ix EXCEPT !.size = s],
              file  |-> [f EXCEPT !.idata = StripZeros(Patch(@, ix.size, entry))],
              ub    |-> FALSE]
        ELSE IF land /\ f.ilen > 0 /\ f.ilen <= ix.size
        THEN [res   |-> "ok",
              index |-> [ix EXCEPT !.size = s,
                                   !.tail = Patch(@, ix.size - f.ilen, entry)],
              file  |-> f,
              ub    |-> TRUE]
        ELSE [res |-> "fault", index |-> ix, file |-> f, ub |-> TRUE]

\* Index::write.  A store through the map past the end of the file either
\* kills the process (SIGBUS, res = "fault") or lands in the page that
\* holds the end of the file (land = TRUE, possible only if the file is
\* not empty).
IndexWrite(ix, f, off, pos, land) ==
    LET s     == ix.size + ENTRY_WIDTH
        entry == to_le_bytes(off, OFF_WIDTH) \o to_le_bytes(pos, POS_WIDTH)
    IN  IF ix.mmap_len < s
        THEN [res |-> "full", index |-> ix, file |-> f, ub |-> FALSE]
        ELSE IF s <= f.ilen
        THEN [res   |-> "ok",
              index |-> [ix EXCEPT !.size = s],
              file  |-> [f EXCEPT !.idata = StripZeros(Patch(@, ix.size, entry))],
              ub    |-> FALSE]
        ELSE IF land /\ f.ilen > 0 /\ f.ilen <= ix.size
        THEN [res   |-> "ok",
              index |-> [ix EXCEPT !.size = s,
                                   !.tail = Patch(@, ix.size - f.ilen, entry)],
              file  |-> f,
              ub    |-> TRUE]
        ELSE [res |-> "fault", index |-> ix, file |-> f, ub |-> TRUE]

\* Index::read.  Every offset of the model is far below 2^31, where the casts
\* to u32 and usize are the identity; (size / 12) - 1 with size < 12 and a
\* slice that ends past the map both panic.
IndexRead(ix, f, offset) ==
    IF ix.size = 0 THEN [res |-> "UnexpectedEof", off |-> 0, pos |-> 0]
    ELSE LET out == IF offset = -1 THEN (ix.size \div ENTRY_WIDTH) - 1 ELSE offset
             pos == out * ENTRY_WIDTH
         IN  IF out < 0 \/ pos + ENTRY_WIDTH > ix.mmap_len
             THEN [res |-> "panic", off |-> 0, pos |-> 0]
             ELSE [res |-> "ok",
                   off |-> from_le_bytes(MmapSlice(ix, f, pos, pos + OFF_WIDTH)),
                   pos |-> from_le_bytes(MmapSlice(ix, f, pos + OFF_WIDTH,
                                                   pos + ENTRY_WIDTH))]

\* faulty variant: the file is flushed but keeps its length
IndexCloseKeepsLength(ix, f, keep) ==
    [index |-> [ix EXCEPT !.tail = <<>>], file |-> f]

\* Index::close: flush, then File::set_len(size).  Bytes stored past the
\* end of the file survive the flush (keep) or are zeroed by it.
IndexClose(ix, f, keep) ==
    LET ext == IF keep /\ ix.tail # <<>> THEN Patch(f.idata, f.ilen, ix.tail)
               ELSE f.idata
    IN  [index |-> [ix EXCEPT !.tail = <<>>],
         file  |-> [f EXCEPT !.idata = StripZeros(SubSeq(ext, 1, Min(Len(ext), ix.size))),
                             !.ilen  = ix.size]]

(***************************************************************************)
(* Segment: one Store and one Index with a common base offset.  A segment  *)
(* value is [base_offset, next_offset, store, index]; its files are        *)
(* disk[base_offset] = [store, idata, ilen].                               *)
(***************************************************************************)
NoFile == [store |-> <<>>, idata |-> <<>>, ilen |-> 0]

FileOf(d, base) == IF base \in DOMAIN d THEN d[base] ELSE NoFile

\* the directory d with the files of base replaced by f
WithFile(d, base, f) ==
    [b \in (DOMAIN d) \cup {base} |-> IF b = base THEN f ELSE d[b]]

WithoutFiles(d, bases) == [b \in (DOMAIN d) \ bases |-> d[b]]

SegmentNew(d, base_offset, c) ==
    LET Built(f0, inew, r) ==
            [res  |-> IF inew.index.size = 0 THEN "ok" ELSE r.res,
             seg  |-> [base_offset |-> base_offset,
                       next_offset |-> IF inew.index.size = 0 THEN base_offset
                                       ELSE base_offset + r.off + 1,
                       store       |-> StoreNew(f0.store),
                       index       |-> inew.index],
             file |-> inew.file]
        Mapped(f0, inew) == Built(f0, inew, IndexRead(inew.index, inew.file, -1))
    IN  Mapped(FileOf(d, base_offset), IndexNew(FileOf(d, base_offset), c))

SegmentClose(seg, f, keep) ==
    LET ic == IndexClose(seg.index, f, keep)
    IN  [seg  |-> [seg EXCEPT !.store = StoreClose(@), !.index = ic.index],
         file |-> [ic.file EXCEPT !.store = FlushedBytes(seg.store, @)]]

\* faulty variant: next_offset advances even when the index write fails
SegmentAppendCountsFailed(seg, f, record, land) ==
    LET cur == seg.next_offset
        Indexed(sa, iw) ==
            [res  |-> iw.res,
             off  |-> cur,
             ub   |-> iw.ub,
             seg  |-> [seg EXCEPT !.store = sa.store,
                                  !.index = iw.index,
                                  !.next_offset = cur + 1],
             file |-> iw.file]
        Stored(sa) ==
            Indexed(sa, IndexWrite(seg.index, f, cur - seg.base_offset, sa.pos, land))
    IN  Stored(StoreAppend(seg.store, Encode(record)))

SegmentAppend(seg, f, record, land) ==
    LET cur == seg.next_offset
        Indexed(sa, iw) ==
            [res  |-> iw.res,
             off  |-> cur,
             ub   |-> iw.ub,
             seg  |-> [seg EXCEPT !.store = sa.store,
                                  !.index = iw.index,
                                  !.next_offset = IF iw.res = "ok" THEN cur + 1 ELSE cur],
             file |-> iw.file]
        Stored(sa) ==
            Indexed(sa, IndexWrite(seg.index, f, cur - seg.base_offset, sa.pos, land))
    IN  Stored(StoreAppend(seg.store, Encode(record)))

\* Segment::read: the result, and whether the store was flushed on the way
SegmentRead(seg, f, offset) ==
    LET Failed(res, flushed) == [res |-> res, rec |-> DefaultRecord, flushed |-> flushed]
        Decoded(de) ==
            IF ~de.ok THEN Failed("decode", TRUE)
            ELSE [res |-> "ok", rec |-> de.rec, flushed |-> TRUE]
        Fetched(sr) ==
            IF sr.alloc THEN Failed("alloc", TRUE)
            ELSE IF ~sr.ok THEN Failed("UnexpectedEof", TRUE)
            ELSE Decoded(Decode(sr.bytes))
        Located(ir) ==
            IF ir.res # "ok" THEN Failed(ir.res, FALSE)
            ELSE Fetched(StoreRead(FlushedBytes(seg.store, f.store), ir.pos))
    IN  Located(IndexRead(seg.index, f, offset - seg.base_offset))

\* faulty variant: the index cap is not looked at
is_maxed_store_only(seg, c) == seg.store.size >= c.max_store_bytes

\* faulty variant: a segment is maxed only once a cap is exceeded
is_maxed_strict(seg, c) ==
    \/ seg.store.size > c.max_store_bytes
    \/ seg.index.size > c.max_index_bytes

is_maxed(seg, c) ==
    \/ seg.store.size >= c.max_store_bytes
    \/ seg.index.size >= c.max_index_bytes

(***************************************************************************)
(* Log.                                                                    *)
(***************************************************************************)
\* Log::new replaces a cap of 0 by 1024
EffConfig(c) ==
    [c EXCEPT !.max_store_bytes = IF @ = 0 THEN DefaultCap ELSE @,
              !.max_index_bytes = IF @ = 0 THEN DefaultCap ELSE @]

Cfg == EffConfig(config)

\* the elements of S in ascending order (sort_unstable)
Sorted(S) ==
    [i \in 1..Cardinality(S) |->
        CHOOSE x \in S : Cardinality({y \in S : y < x}) = i - 1]

\* Log::new_segment for each base offset of the sequence bases, in order,
\* up to the first one that fails; each opens (or creates) its own two files
OpenAll(d, bases, c) ==
    LET Collect(opened) ==
            LET bad == {i \in 1..Len(bases) : opened[i].res # "ok"}
                n   == IF bad = {} THEN Len(bases)
                       ELSE CHOOSE i \in bad : \A j \in bad : i <= j
            IN  [res  |-> IF bad = {} THEN "ok" ELSE opened[n].res,
                 segs |-> [i \in 1..(IF bad = {} THEN n ELSE n - 1) |-> opened[i].seg],
                 disk |-> [b \in (DOMAIN d) \cup {bases[i] : i \in 1..n} |->
                              IF \E i \in 1..n : bases[i] = b
                              THEN opened[CHOOSE i \in 1..n : bases[i] = b].file
                              ELSE d[b]]]
    IN  Collect([i \in 1..Len(bases) |-> SegmentNew(d, bases[i], c)])

\* Log::new with Log::setup on the directory d
LogNew(d, rawc) ==
    LET c == EffConfig(rawc)
        Opened(fin) ==
            [res    |-> fin.res,
             segs   |-> fin.segs,
             active |-> IF fin.segs = <<>> THEN None ELSE Len(fin.segs) - 1,
             disk   |-> fin.disk]
        Setup(rec) ==
            IF rec.res = "ok" /\ rec.segs = <<>>
            THEN Opened(OpenAll(rec.disk, <<c.initial_offset>>, c))
            ELSE Opened(rec)
    IN  Setup(OpenAll(d, Sorted(DOMAIN d), c))

\* the directory after Segment::close on every segment of segs (each
\* segment closes its own two files)
CloseAll(segs, d, keep) ==
    [b \in DOMAIN d |->
        IF \E i \in 1..Len(segs) : segs[i].base_offset = b
        THEN SegmentClose(segs[CHOOSE i \in 1..Len(segs) : segs[i].base_offset = b],
                          d[b], keep).file
        ELSE d[b]]

ClosedSegs(segs, d, keep) ==
    [i \in 1..Len(segs) |->
        SegmentClose(segs[i], FileOf(d, segs[i].base_offset), keep).seg]

HasTail(segs) == \E i \in 1..Len(segs) : segs[i].index.tail # <<>>

Keeps(segs) == IF HasTail(segs) THEN BOOLEAN ELSE {TRUE}

\* the outcomes of a store through the map: one, unless it is past the end
\* of the index file
Lands(seg, f) ==
    IF seg.index.size + ENTRY_WIDTH <= seg.index.mmap_len
       /\ seg.index.size + ENTRY_WIDTH > f.ilen
    THEN BOOLEAN ELSE {TRUE}

\* faulty variant: the range of a segment includes next_offset
CoversInclusive(s, off) == s.base_offset <= off /\ s.next_offset >= off

Covers(s, off) == s.base_offset <= off /\ s.next_offset > off

\* the position (1-based) of the segment Log::read finds for off, or 0
FindSeg(segs, off) ==
    IF \E i \in 1..Len(segs) : Covers(segs[i], off)
    THEN CHOOSE i \in 1..Len(segs) :
            Covers(segs[i], off) /\ \A j \in 1..(i - 1) : ~Covers(segs[j], off)
    ELSE 0

\* Log::read
LogRead(segs, d, off) ==
    LET i == FindSeg(segs, off)
    IN  IF i = 0 THEN [res |-> "out of range", rec |-> DefaultRecord, flushed |-> FALSE]
        ELSE SegmentRead(segs[i], FileOf(d, segs[i].base_offset), off)

\* Log::lowest_offset
lowest_offset(segs) ==
    IF segs = <<>> THEN [ok |-> FALSE, off |-> 0]
    ELSE [ok |-> TRUE, off |-> segs[1].base_offset]

\* Log::highest_offset
highest_offset(segs) ==
    IF segs = <<>> THEN [ok |-> FALSE, off |-> 0]
    ELSE LET off == segs[Len(segs)].next_offset
         IN  [ok |-> TRUE, off |-> IF off = 0 THEN off ELSE off - 1]

(***************************************************************************)
(* The state machine.                                                      *)
(***************************************************************************)
Offsets  == 0..(MaxAppends + 2)
BufSizes == {3, MaxBuf}

EmptyDir == [b \in {} |-> NoFile]

\* no stand-alone Store, no stand-alone Index
NoStore == [open |-> FALSE]
NoIndex == [open |-> FALSE]

MkLast(op, arg, res, off, rec) ==
    [op |-> op, arg |-> arg, res |-> res, off |-> off, rec |-> rec]

Init ==
    \E c \in Configs : \E l \in {LogNew(EmptyDir, c)} :
        /\ config   = c
        /\ disk     = l.disk
        /\ alive    = TRUE
        /\ segments = l.segs
        /\ active   = l.active
        /\ mr       = NoReader
        /\ lock     = Unlocked
        /\ calls    = NoCalls
        /\ drained  = <<>>
        /\ appended = <<>>
        /\ ncalls   = 0
        /\ last     = MkLast("open", 0, l.res, 0, DefaultRecord)
        /\ onlyAppends = TRUE
        /\ ub       = FALSE
        /\ tstore   = NoStore
        /\ tindex   = NoIndex

\* the Log value is dropped (by its owner, or by the unwinding of a panic):
\* Drop for Index and Drop for Store close every segment
Dropped(keep) ==
    /\ disk'     = CloseAll(segments, disk, keep)
    /\ segments' = <<>>
    /\ active'   = None
    /\ alive'    = FALSE

\* Log::append
LogAppend(record) ==
    /\ alive /\ ~mr.open
    /\ ncalls < MaxAppends
    /\ ncalls' = ncalls + 1
    /\ UNCHANGED <<lock, calls, tstore, tindex, config, mr, drained, onlyAppends>>
    /\ IF active = None
       THEN /\ last' = MkLast("append", 0, "no active segment", 0, record)
            /\ UNCHANGED <<disk, alive, segments, active, appended, ub>>
       ELSE IF active >= Len(segments)
       THEN \E keep \in Keeps(segments) :
                /\ Dropped(keep)
                /\ last' = MkLast("append", 0, "panic", 0, record)
                /\ UNCHANGED <<appended, ub>>
       ELSE \E land \in Lands(segments[active + 1],
                                FileOf(disk, segments[active + 1].base_offset)) :
            \E r \in {SegmentAppend(segments[active + 1],
                                     FileOf(disk, segments[active + 1].base_offset),
                                     record, land)} :
            LET d1  == WithFile(disk, segments[active + 1].base_offset, r.file)
                sg1 == [segments EXCEPT ![active + 1] = r.seg]
            IN  /\ ub' = (ub \/ r.ub)
                /\ last' = MkLast("append", 0, r.res, r.off, record)
                /\ CASE r.res = "ok" ->
                          /\ appended' = Append(appended, [off |-> r.off, rec |-> record])
                          /\ alive' = alive
                          /\ IF is_maxed(r.seg, Cfg)
                             THEN \E sn \in {SegmentNew(d1, r.off + 1, Cfg)} :
                                  /\ segments' = Append(sg1, sn.seg)
                                  /\ active'   = Len(sg1)
                                  /\ disk'     = WithFile(d1, r.off + 1, sn.file)
                             ELSE /\ segments' = sg1
                                  /\ active'   = active
                                  /\ disk'     = d1
                     [] r.res = "full" ->
                          /\ segments' = sg1
                          /\ disk'     = d1
                          /\ UNCHANGED <<alive, active, appended>>
                     [] OTHER ->
                          /\ segments' = <<>>
                          /\ active'   = None
                          /\ alive'    = FALSE
                          /\ UNCHANGED <<disk, appended>>

\* the outcomes of vec![0; sz] with a length prefix that is too big: the
\* allocation fails and the process aborts, or it succeeds and the read
\* runs past the end of the file
Aborts(r) == IF r.res = "alloc" THEN BOOLEAN ELSE {FALSE}

\* Log::read
Read(off) ==
    /\ alive
    /\ \E r \in {LogRead(segments, disk, off)} : \E abort \in Aborts(r) :
       LET i == FindSeg(segments, off)
       IN  /\ last' = MkLast("read", off,
                             IF abort THEN "abort"
                             ELSE IF r.res = "alloc" THEN "UnexpectedEof" ELSE r.res,
                             off, r.rec)
           /\ disk' = IF r.flushed
                      THEN [disk EXCEPT ![segments[i].base_offset].store =
                                            FlushedBytes(segments[i].store, @)]
                      ELSE disk
           /\ segments' = IF abort THEN <<>>
                          ELSE IF r.flushed
                          THEN [segments EXCEPT ![i].store = FlushedStore(@)]
                          ELSE segments
           /\ alive'  = ~abort
           /\ active' = IF abort THEN None ELSE active
    /\ UNCHANGED <<lock, calls, tstore, tindex, config, mr, drained, appended, ncalls, onlyAppends, ub>>

\* Log::close
Close ==
    /\ alive /\ ~mr.open
    /\ \E keep \in Keeps(segments) :
          /\ disk'     = CloseAll(segments, disk, keep)
          /\ segments' = ClosedSegs(segments, disk, keep)
    /\ last' = MkLast("close", 0, "ok", 0, DefaultRecord)
    /\ onlyAppends' = FALSE
    /\ UNCHANGED <<lock, calls, tstore, tindex, config, alive, active, mr, drained, appended, ncalls, ub>>

\* faulty variant: segments with next_offset = lowest + 1 are kept
TruncateOffByOne(lowest) ==
    /\ alive /\ ~mr.open
    /\ LET lim  == lowest
           gone == {segments[i].base_offset : i \in
                       {j \in 1..Len(segments) : segments[j].next_offset <= lim}}
       IN  /\ segments' = SelectSeq(segments, LAMBDA s : ~(s.next_offset <= lim))
           /\ disk'     = WithoutFiles(disk, gone)
    /\ last' = MkLast("truncate", lowest, "ok", 0, DefaultRecord)
    /\ onlyAppends' = FALSE
    /\ UNCHANGED <<lock, calls, tstore, tindex, config, alive, active, mr, drained, appended, ncalls, ub>>

\* faulty variant: removed segments are closed but their files are not deleted
TruncateKeepsFiles(lowest) ==
    /\ alive /\ ~mr.open
    /\ LET lim  == lowest + 1
           gone == SelectSeq(segments, LAMBDA s : s.next_offset <= lim)
       IN  /\ segments' = SelectSeq(segments, LAMBDA s : ~(s.next_offset <= lim))
           /\ disk'     = CloseAll(gone, disk, TRUE)
    /\ last' = MkLast("truncate", lowest, "ok", 0, DefaultRecord)
    /\ onlyAppends' = FALSE
    /\ UNCHANGED <<lock, calls, tstore, tindex, config, alive, active, mr, drained, appended, ncalls, ub>>

\* Log::truncate
Truncate(lowest) ==
    /\ alive /\ ~mr.open
    /\ LET lim  == lowest + 1
           gone == {segments[i].base_offset : i \in
                       {j \in 1..Len(segments) : segments[j].next_offset <= lim}}
       IN  /\ segments' = SelectSeq(segments, LAMBDA s : ~(s.next_offset <= lim))
           /\ disk'     = WithoutFiles(disk, gone)
    /\ last' = MkLast("truncate", lowest, "ok", 0, DefaultRecord)
    /\ onlyAppends' = FALSE
    /\ UNCHANGED <<lock, calls, tstore, tindex, config, alive, active, mr, drained, appended, ncalls, ub>>

\* the Log value (if any) is dropped and Log::new is called on the directory
Reopen ==
    /\ ~mr.open
    /\ \E keep \in Keeps(segments) :
       \E l \in {LogNew(CloseAll(segments, disk, keep), config)} :
          /\ alive'    = (l.res = "ok")
          /\ segments' = IF l.res = "ok" THEN l.segs ELSE <<>>
          /\ active'   = IF l.res = "ok" THEN l.active ELSE None
          /\ disk'     = IF l.res = "ok" THEN l.disk
                         ELSE CloseAll(l.segs, l.disk, TRUE)
          /\ last'     = MkLast("open", 0, l.res, 0, DefaultRecord)
    /\ onlyAppends' = FALSE
    /\ UNCHANGED <<lock, calls, tstore, tindex, config, mr, drained, appended, ncalls, ub>>

Next ==
    \/ \E record \in Records : LogAppend(record)
    \/ \E off \in Offsets : Read(off)
    \/ Close
    \/ \E lowest \in Offsets : Truncate(lowest)
    \/ Reopen

Spec == Init /\ [][Next]_vars

(***************************************************************************)
(* The bulk reader: Log::reader builds a MultiReader over one StoreReader  *)
(* per segment; a StoreReader is [seg, off], seg being the position of the *)
(* borrowed segment in Log.segments.  While the reader lives the Log is    *)
(* borrowed: only &self methods can run.                                   *)
(***************************************************************************)
\* Log::reader
Reader ==
    /\ alive /\ ~mr.open
    /\ mr' = [open  |-> TRUE,
              inner |-> [i \in 1..Len(segments) |-> [seg |-> i, off |-> 0]],
              call  |-> Idle]
    /\ drained' = <<>>
    /\ last' = MkLast("reader", 0, "ok", 0, DefaultRecord)
    /\ UNCHANGED <<lock, calls, tstore, tindex, config, disk, alive, segments, active, appended, ncalls, onlyAppends, ub>>

\* the whole store of a segment, buffered bytes included
StoreBytes(segs, d, i) ==
    FlushedBytes(segs[i].store, FileOf(d, segs[i].base_offset).store)

\* faulty variant: an exhausted reader at the front ends the stream
MultiReadStops(inner, segs, d, n, touched) ==
    IF inner = <<>> THEN [data |-> <<>>, inner |-> inner, touched |-> touched]
    ELSE LET r    == Head(inner)
             data == StoreReadAt(StoreBytes(segs, d, r.seg), n, r.off)
         IN  [data    |-> data,
              inner   |-> <<[r EXCEPT !.off = @ + Len(data)]>> \o Tail(inner),
              touched |-> touched \cup {r.seg}]

\* MultiReader::read with a buffer of n bytes: the bytes returned, the queue
\* left, and the segments whose store StoreReader::read has flushed
RECURSIVE MultiRead(_, _, _, _, _)
MultiRead(inner, segs, d, n, touched) ==
    IF inner = <<>> THEN [data |-> <<>>, inner |-> inner, touched |-> touched]
    ELSE LET r    == Head(inner)
             data == StoreReadAt(StoreBytes(segs, d, r.seg), n, r.off)
         IN  IF data = <<>>
             THEN MultiRead(Tail(inner), segs, d, n, touched \cup {r.seg})
             ELSE [data    |-> data,
                   inner   |-> <<[r EXCEPT !.off = @ + Len(data)]>> \o Tail(inner),
                   touched |-> touched \cup {r.seg}]

MRRead(n) ==
    /\ alive /\ mr.open
    /\ \E r \in {MultiRead(mr.inner, segments, disk, n, {})} :
           /\ mr' = [mr EXCEPT !.inner = r.inner]
           /\ drained' = drained \o r.data
           /\ segments' = [i \in 1..Len(segments) |->
                             IF i \in r.touched
                             THEN [segments[i] EXCEPT !.store = FlushedStore(@)]
                             ELSE segments[i]]
           /\ disk' = [b \in DOMAIN disk |->
                         IF \E i \in r.touched : segments[i].base_offset = b
                         THEN [disk[b] EXCEPT !.store =
                                 FlushedBytes(segments[CHOOSE i \in r.touched :
                                     segments[i].base_offset = b].store, @)]
                         ELSE disk[b]]
           /\ last' = MkLast("mr_read", n, "ok", Len(r.data), DefaultRecord)
    /\ UNCHANGED <<lock, calls, tstore, tindex, config, alive, active, appended, ncalls, onlyAppends, ub>>

\* the reader is dropped
DropReader ==
    /\ mr.open /\ mr.call.pc # "loop"
    /\ mr' = NoReader
    /\ drained' = <<>>
    /\ last' = MkLast("drop_reader", 0, "ok", 0, DefaultRecord)
    /\ UNCHANGED <<lock, calls, tstore, tindex, config, disk, alive, segments, active, appended, ncalls, onlyAppends, ub>>

NextReader ==
    \/ \E record \in Records : LogAppend(record)
    \/ Close
    \/ \E lowest \in Offsets : Truncate(lowest)
    \/ Reader
    \/ \E n \in BufSizes : MRRead(n)
    \/ DropReader

SpecReader == Init /\ [][NextReader]_vars

(***************************************************************************)
(* MultiReader::read one loop iteration at a time, to observe the loop     *)
(* itself.  mr.call.pc is "loop" while a call runs and "ret" once it has   *)
(* returned mr.call.data.                                                  *)
(***************************************************************************)
LoopBufSizes == {0} \cup BufSizes

\* a caller enters MultiReader::read with a buffer of n bytes
MRCall(n) ==
    /\ alive /\ mr.open /\ mr.call.pc # "loop"
    /\ mr' = [mr EXCEPT !.call =
                 [pc |-> "loop", n |-> n, data |-> <<>>, at |-> mr.inner,
                  zero |-> @.zero \/ (@.pc = "ret" /\ @.data = <<>>)]]
    /\ last' = MkLast("mr_call", n, "ok", 0, DefaultRecord)
    /\ UNCHANGED <<lock, calls, tstore, tindex, config, disk, alive, segments, active, drained,
                   appended, ncalls, onlyAppends, ub>>

\* faulty variant: an exhausted reader at the front ends the call
MRStepStops ==
    /\ alive /\ mr.open /\ mr.call.pc = "loop"
    /\ IF mr.inner = <<>>
       THEN /\ mr' = [mr EXCEPT !.call.pc = "ret"]
            /\ UNCHANGED <<segments, disk, drained>>
       ELSE \E r \in {Head(mr.inner)} :
            \E data \in {StoreReadAt(StoreBytes(segments, disk, r.seg), mr.call.n, r.off)} :
                /\ segments' = [segments EXCEPT ![r.seg].store = FlushedStore(@)]
                /\ disk' = [disk EXCEPT ![segments[r.seg].base_offset].store =
                                            FlushedBytes(segments[r.seg].store, @)]
                /\ mr' = [mr EXCEPT !.inner = <<[r EXCEPT !.off = @ + Len(data)]>>
                                                  \o Tail(mr.inner),
                                    !.call.pc = "ret", !.call.data = data]
                /\ drained' = drained \o data
    /\ last' = MkLast("mr_step", mr.call.n, "ok", Len(mr'.call.data), DefaultRecord)
    /\ UNCHANGED <<lock, calls, tstore, tindex, config, alive, active, appended, ncalls, onlyAppends, ub>>

\* one evaluation of the loop condition and, the queue not being empty, of
\* the loop body: StoreReader::read on the front reader (Store::read_at
\* flushes the store first), then pop_front and continue, or return
MRStep ==
    /\ alive /\ mr.open /\ mr.call.pc = "loop"
    /\ IF mr.inner = <<>>
       THEN /\ mr' = [mr EXCEPT !.call.pc = "ret"]
            /\ UNCHANGED <<segments, disk, drained>>
       ELSE \E r \in {Head(mr.inner)} :
            \E data \in {StoreReadAt(StoreBytes(segments, disk, r.seg), mr.call.n, r.off)} :
                /\ segments' = [segments EXCEPT ![r.seg].store = FlushedStore(@)]
                /\ disk' = [disk EXCEPT ![segments[r.seg].base_offset].store =
                                            FlushedBytes(segments[r.seg].store, @)]
                /\ IF data = <<>>
                   THEN /\ mr' = [mr EXCEPT !.inner = Tail(@)]
                        /\ UNCHANGED drained
                   ELSE /\ mr' = [mr EXCEPT !.inner = <<[r EXCEPT !.off = @ + Len(data)]>>
                                                          \o Tail(mr.inner),
                                            !.call.pc = "ret", !.call.data = data]
                        /\ drained' = drained \o data
    /\ last' = MkLast("mr_step", mr.call.n, "ok", Len(mr'.call.data), DefaultRecord)
    /\ UNCHANGED <<lock, calls, tstore, tindex, config, alive, active, appended, ncalls, onlyAppends, ub>>

NextLoop ==
    \/ \E record \in Records : LogAppend(record)
    \/ Reader
    \/ \E n \in LoopBufSizes : MRCall(n)
    \/ MRStep
    \/ DropReader

\* the thread inside MultiReader::read keeps running
SpecLoop == Init /\ [][NextLoop]_vars /\ WF_vars(MRStep)

(***************************************************************************)
(* Observations used by the properties.                                    *)
(***************************************************************************)
\* some segment of the log holds offset k
InSomeSegment(segs, k) ==
    \E i \in 1..Len(segs) : segs[i].base_offset <= k /\ k < segs[i].next_offset

\* the record passed to the latest successful append that returned offset k
RecordAt(k) ==
    LET n == CHOOSE m \in 1..Len(appended) :
                 /\ appended[m].off = k
                 /\ \A j \in (m + 1)..Len(appended) : appended[j].off # k
    IN  appended[n].rec

WasAppended(k) == \E m \in 1..Len(appended) : appended[m].off = k

InRange(segs, k) ==
    /\ lowest_offset(segs).ok /\ highest_offset(segs).ok
    /\ lowest_offset(segs).off <= k /\ k <= highest_offset(segs).off

ReadsBack(segs, d, k) ==
    /\ LogRead(segs, d, k).res = "ok"
    /\ WasAppended(k)
    /\ LogRead(segs, d, k).rec.value = RecordAt(k).value

(***************************************************************************)
(* C1: across append, truncate, close, drop and re-open, the n-th          *)
(* successful append ever made (from 0) returns initial_offset + n, so     *)
(* successive appends return offsets that grow by 1 and none is returned   *)
(* twice.                                                                  *)
(***************************************************************************)
C1_DenseOffsets ==
    \A n \in 1..Len(appended) : appended[n].off = Cfg.initial_offset + (n - 1)

(***************************************************************************)
(* C2: after any sequence of N >= 1 successful appends (rotations          *)
(* included), read(k) succeeds for every k in                              *)
(* [lowest_offset(), highest_offset()] and returns the payload passed to   *)
(* the append that returned k.                                             *)
(***************************************************************************)
C2_ReadReturnsAppended ==
    (alive /\ onlyAppends /\ Len(appended) >= 1) =>
        /\ \A k \in Offsets : InRange(segments, k) => ReadsBack(segments, disk, k)
        /\ (last.op = "read" /\ InRange(segments, last.arg)) =>
               (last.res = "ok" /\ last.rec.value = RecordAt(last.arg).value)

C2_Witness ==
    /\ alive /\ onlyAppends /\ Len(appended) = MaxAppends
    /\ Len(segments) >= 2
    /\ last.op = "read" /\ last.res = "ok" /\ last.rec.value = <<1, 2, 3>>
    /\ last.arg = lowest_offset(segments).off + 1

\* C2 as stated, for any N (N = 0 included)
C2_Original ==
    (alive /\ onlyAppends) =>
        \A k \in Offsets : InRange(segments, k) => ReadsBack(segments, disk, k)

(***************************************************************************)
(* C3: Log::close leaves lowest_offset() and highest_offset() unchanged,   *)
(* and re-opening the directory after close yields the same                *)
(* lowest_offset(), highest_offset() and read(k) for every k, for any      *)
(* number of segments present at close time.                               *)
(***************************************************************************)
SameOffsets(s1, s2) ==
    /\ lowest_offset(s1) = lowest_offset(s2)
    /\ highest_offset(s1) = highest_offset(s2)

SameReads(s1, d1, s2, d2) ==
    \A k \in Offsets :
        /\ LogRead(s1, d1, k).res = LogRead(s2, d2, k).res
        /\ LogRead(s1, d1, k).rec = LogRead(s2, d2, k).rec

C3_CloseReopenPreserves ==
    [][ /\ last'.op = "close" => SameOffsets(segments, segments')
        /\ (last.op = "close" /\ last'.op = "open") =>
              /\ SameOffsets(segments, segments')
              /\ SameReads(segments, disk, segments', disk') ]_vars

(***************************************************************************)
(* C4: no Log::append ever fails with the index-full error of              *)
(* Index::write, whatever the configured caps.                             *)
(***************************************************************************)
C4_NoIndexFull == ~(last.op = "append" /\ last.res = "full")

(***************************************************************************)
(* C5: after truncate(L), read(k) fails with "out of range" for every k    *)
(* that lay in [base_offset, next_offset) of a removed segment, and        *)
(* read(k) still succeeds, with the payload it returned before, for every  *)
(* k held by a retained segment.                                           *)
(***************************************************************************)
HeldBy(segs, k, removed, L) ==
    \E i \in 1..Len(segs) :
        /\ segs[i].base_offset <= k /\ k < segs[i].next_offset
        /\ removed = (segs[i].next_offset <= L + 1)

C6_TruncateFrame ==
    [][ last'.op = "truncate" =>
          LET L    == last'.arg
              kept == {i \in 1..Len(segments) : segments[i].next_offset > L + 1}
          IN  /\ Len(segments') = Cardinality(kept)
              /\ \A i \in 1..Len(segments) :
                    IF i \in kept
                    THEN /\ segments'[i - (Len(segments) - Len(segments'))] = segments[i]
                         /\ segments[i].base_offset \in DOMAIN disk'
                         /\ disk'[segments[i].base_offset] = disk[segments[i].base_offset]
                    ELSE segments[i].base_offset \notin DOMAIN disk'
              /\ DOMAIN disk' \subseteq DOMAIN disk
              /\ \A k \in Offsets :
                    (k > L /\ InSomeSegment(segments, k)) => InSomeSegment(segments', k)
              /\ \A i \in 1..Len(segments) :
                    (segments[i].base_offset <= L /\ L + 1 < segments[i].next_offset) =>
                        \E j \in 1..Len(segments') : segments'[j] = segments[i] ]_vars

C6_Witness ==
    /\ alive /\ last.op = "truncate" /\ Len(segments) >= 1
    /\ \E m \in 1..Len(appended) : ~InSomeSegment(segments, appended[m].off)
    /\ segments[1].base_offset <= last.arg /\ last.arg + 1 < segments[1].next_offset

(***************************************************************************)
(* C7: after any sequence of appends on a freshly opened log, if at least  *)
(* one append succeeded then highest_offset() - lowest_offset() + 1 is the *)
(* number of successful appends.                                           *)
(***************************************************************************)
C7_CountOfAppends ==
    (alive /\ onlyAppends /\ Len(appended) >= 1) =>
        /\ lowest_offset(segments).ok /\ highest_offset(segments).ok
        /\ highest_offset(segments).off - lowest_offset(segments).off + 1 = Len(appended)

C7_Witness ==
    /\ alive /\ onlyAppends /\ last.op = "append"
    /\ Len(appended) = MaxAppends /\ Len(segments) >= 2
    /\ Cfg.initial_offset # 0

(***************************************************************************)
(* C8: read(k) fails with "out of range" exactly when no segment s has     *)
(* s.base_offset <= k < s.next_offset; on an empty log every read fails    *)
(* so, and so does read(highest_offset() + 1).                             *)
(***************************************************************************)
C8_OutOfRange ==
    alive =>
        /\ \A k \in Offsets :
              (LogRead(segments, disk, k).res = "out of range")
                  <=> ~InSomeSegment(segments, k)
        /\ last.op = "read" =>
              ((last.res = "out of range") <=> ~InSomeSegment(segments, last.arg))
        /\ (onlyAppends /\ appended = <<>>) =>
              \A k \in Offsets : LogRead(segments, disk, k).res = "out of range"
        /\ highest_offset(segments).ok =>
              LogRead(segments, disk, highest_offset(segments).off + 1).res
                  = "out of range"

C8_Witness ==
    /\ alive /\ last.op = "read" /\ last.res = "out of range"
    /\ Len(segments) >= 2 /\ Len(appended) >= 2
    /\ last.arg = highest_offset(segments).off + 1

(***************************************************************************)
(* C9: an append grows the number of segments by exactly 1 when, after it, *)
(* the store of the segment that received the record holds at least        *)
(* max_store_bytes or its index at least max_index_bytes, and by 0         *)
(* otherwise.                                                              *)
(***************************************************************************)
C9_RotationBySegmentSize ==
    [][ (last'.op = "append" /\ last'.res = "ok") =>
          LET s == segments'[active + 1]
          IN  Len(segments') - Len(segments) =
                 IF \/ s.store.size >= Cfg.max_store_bytes
                    \/ s.index.size >= Cfg.max_index_bytes
                 THEN 1 ELSE 0 ]_vars

C9_Witness ==
    /\ alive /\ last.op = "append" /\ last.res = "ok"
    /\ Len(segments) = 2 /\ Len(appended) = MaxAppends
    /\ segments[2].next_offset > segments[2].base_offset
    /\ Cfg.max_store_bytes < DefaultCap

RECURSIVE CumStore(_)
CumStore(segs) ==
    IF segs = <<>> THEN 0 ELSE Head(segs).store.size + CumStore(Tail(segs))

RECURSIVE CumIndex(_)
CumIndex(segs) ==
    IF segs = <<>> THEN 0 ELSE Head(segs).index.size + CumIndex(Tail(segs))

Crosses(before, after, cap) == (after \div cap) > (before \div cap)

\* C9 as stated: rotation exactly when the cumulative bytes of the log
\* cross a multiple of the cap
C9_Original ==
    [][ (last'.op = "append" /\ last'.res = "ok" /\ onlyAppends') =>
          Len(segments') - Len(segments) =
             IF \/ Crosses(CumStore(segments), CumStore(segments'), Cfg.max_store_bytes)
                \/ Crosses(CumIndex(segments), CumIndex(segments'), Cfg.max_index_bytes)
             THEN 1 ELSE 0 ]_vars

(***************************************************************************)
(* C10: draining the stream of Log::reader to end-of-file yields exactly   *)
(* the concatenation of the whole store of every segment (buffered bytes   *)
(* included) in ascending base_offset order, whatever the buffer sizes.    *)
(***************************************************************************)
RECURSIVE StoresInOrder(_, _, _)
StoresInOrder(bases, segs, d) ==
    IF bases = <<>> THEN <<>>
    ELSE LET i == CHOOSE j \in 1..Len(segs) : segs[j].base_offset = Head(bases)
         IN  (d[Head(bases)].store \o segs[i].store.buf)
             \o StoresInOrder(Tail(bases), segs, d)

AllStores(segs, d) ==
    StoresInOrder(Sorted({segs[i].base_offset : i \in 1..Len(segs)}), segs, d)

C10_ReaderDrainsAll ==
    (alive /\ mr.open /\ last.op = "mr_read") =>
        /\ Len(drained) <= Len(AllStores(segments, disk))
        /\ drained = SubSeq(AllStores(segments, disk), 1, Len(drained))
        /\ last.off = 0 => drained = AllStores(segments, disk)

C10_Witness ==
    /\ alive /\ mr.open /\ last.op = "mr_read" /\ last.off = 0
    /\ Len(segments) >= 2
    /\ segments[1].store.size > 0 /\ segments[2].store.size > 0
    /\ drained = AllStores(segments, disk)

(***************************************************************************)
(* A Store on a file of its own, driven as test_store drives it: any       *)
(* sequence of Store::append, Store::read and Store::close.  tstore.hist   *)
(* records, for every append, the payload, the pair it returned and the    *)
(* size of the store before the call.                                      *)
(***************************************************************************)
Payloads   == { <<>>, <<7>>, <<1, 2, 3>> }
StoreFiles == { <<>>, <<1, 0, 0, 0, 0, 0, 0, 0, 9>> }

\* the Log variables while only a stand-alone object is driven
NoLog ==
    /\ config   = [max_store_bytes |-> 0, max_index_bytes |-> 0, initial_offset |-> 0]
    /\ disk     = EmptyDir
    /\ alive    = FALSE
    /\ segments = <<>>
    /\ active   = None
    /\ mr       = NoReader
    /\ lock     = Unlocked
    /\ calls    = NoCalls
    /\ drained  = <<>>
    /\ appended = <<>>
    /\ ncalls   = 0
    /\ last     = MkLast("none", 0, "ok", 0, DefaultRecord)
    /\ onlyAppends = TRUE
    /\ ub       = FALSE

\* Store::new on a file
InitStore ==
    /\ NoLog
    /\ tindex = NoIndex
    /\ \E bytes \in StoreFiles :
          tstore = [open  |-> TRUE,
                    store |-> StoreNew(bytes),
                    file  |-> bytes,
                    hist  |-> <<>>,
                    last  |-> [op |-> "new", arg |-> 0, ok |-> TRUE, bytes |-> <<>>]]

\* Store::append
TStoreAppend(p) ==
    /\ tstore.open /\ Len(tstore.hist) < MaxAppends
    /\ \E r \in {StoreAppend(tstore.store, p)} :
          tstore' = [tstore EXCEPT
                        !.store = r.store,
                        !.hist  = Append(@, [p |-> p, w |-> r.w, pos |-> r.pos,
                                             before |-> tstore.store.size]),
                        !.last  = [op |-> "append", arg |-> r.pos, ok |-> TRUE,
                                   bytes |-> p]]
    /\ UNCHANGED <<logvars, tindex>>

\* Store::read: flushes the writer, then reads the frame at pos
TStoreRead(pos) ==
    /\ tstore.open
    /\ \E r \in {StoreRead(FlushedBytes(tstore.store, tstore.file), pos)} :
          tstore' = [tstore EXCEPT
                        !.file  = FlushedBytes(tstore.store, @),
                        !.store = FlushedStore(@),
                        !.last  = [op |-> "read", arg |-> pos, ok |-> r.ok,
                                   bytes |-> r.bytes]]
    /\ UNCHANGED <<logvars, tindex>>

\* Store::close
TStoreClose ==
    /\ tstore.open /\ tstore.store.buf # <<>>
    /\ tstore' = [tstore EXCEPT
                      !.file  = FlushedBytes(tstore.store, @),
                      !.store = StoreClose(@),
                      !.last  = [op |-> "close", arg |-> 0, ok |-> TRUE, bytes |-> <<>>]]
    /\ UNCHANGED <<logvars, tindex>>

NextStore ==
    \/ \E p \in Payloads : TStoreAppend(p)
    \/ \E i \in 1..Len(tstore.hist) : TStoreRead(tstore.hist[i].pos)
    \/ TStoreRead(tstore.store.size)
    \/ TStoreClose

SpecStore == InitStore /\ [][NextStore]_vars

(***************************************************************************)
(* C11: every Store::append(p) returns (8 + len(p), pos) with pos the size *)
(* of the store before the call, and a later Store::read(pos) returns      *)
(* exactly p, flushed or not, whatever was appended before or after.       *)
(***************************************************************************)
C11_StoreRoundTrip ==
    tstore.open =>
        /\ \A i \in 1..Len(tstore.hist) :
              /\ tstore.hist[i].w = LEN_WIDTH + Len(tstore.hist[i].p)
              /\ tstore.hist[i].pos = tstore.hist[i].before
              /\ StoreRead(FlushedBytes(tstore.store, tstore.file), tstore.hist[i].pos)
                     = [ok |-> TRUE, bytes |-> tstore.hist[i].p, alloc |-> FALSE]
              /\ (tstore.last.op = "read" /\ tstore.last.arg = tstore.hist[i].pos) =>
                     (tstore.last.ok /\ tstore.last.bytes = tstore.hist[i].p)

C11_Witness ==
    /\ tstore.open /\ Len(tstore.hist) = MaxAppends
    /\ tstore.hist[1].p = <<1, 2, 3>> /\ tstore.hist[1].pos > 0
    /\ \E i \in 2..Len(tstore.hist) : tstore.hist[i].p = <<>>
    /\ tstore.last.op = "read" /\ tstore.last.arg = tstore.hist[1].pos
    /\ tstore.last.ok /\ tstore.last.bytes = <<1, 2, 3>>

(***************************************************************************)
(* C12: in every state reachable after setup, while the Log lives, the     *)
(* segments vector is not empty and active_segment_idx is the index of its *)
(* last element; so an append issued right after a truncate does not fail  *)
(* for want of its segment.                                                *)
(***************************************************************************)
C12_ActiveIsLast ==
    /\ alive => (segments # <<>> /\ active = Len(segments) - 1)
    /\ ~(last.op = "append" /\ last.res \in {"panic", "no active segment"})

(***************************************************************************)
(* C13: the Record returned by Log::read(k) carries offset = k, whatever   *)
(* the offset field of the caller's Record held when it was appended.      *)
(***************************************************************************)
C13_ReadCarriesOffset ==
    alive =>
        /\ \A k \in Offsets : \A r \in {LogRead(segments, disk, k)} :
              r.res = "ok" => r.rec.offset = k
        /\ (last.op = "read" /\ last.res = "ok") => last.rec.offset = last.arg

(***************************************************************************)
(* C14: in every reachable state the segments vector is sorted by strictly *)
(* ascending base_offset and adjacent segments are contiguous:             *)
(* segments[i+1].base_offset = segments[i].next_offset.                    *)
(***************************************************************************)
C14_SortedContiguous ==
    \A i \in 1..(Len(segments) - 1) :
        /\ segments[i].base_offset < segments[i + 1].base_offset
        /\ segments[i + 1].base_offset = segments[i].next_offset

(***************************************************************************)
(* C15: when Segment::append fails because Index::write fails after the    *)
(* store append, no offset is returned, next_offset and the index are      *)
(* unchanged, the store has grown by the frame (8 + encoded length), and   *)
(* highest_offset() and every offset readable before read as before.       *)
(***************************************************************************)
C15_FailedAppend ==
    [][ (last'.op = "append" /\ last'.res = "full") =>
          /\ appended' = appended
          /\ Len(segments') = Len(segments) /\ active' = active
          /\ \A i \in 1..Len(segments) :
                IF i = active + 1
                THEN /\ segments'[i].base_offset = segments[i].base_offset
                     /\ segments'[i].next_offset = segments[i].next_offset
                     /\ segments'[i].index = segments[i].index
                     /\ segments'[i].store.size =
                            segments[i].store.size + LEN_WIDTH + Len(Encode(last'.rec))
                ELSE segments'[i] = segments[i]
          /\ highest_offset(segments') = highest_offset(segments)
          /\ \A k \in Offsets : \A r \in {LogRead(segments, disk, k)} :
                r.res = "ok" =>
                    /\ LogRead(segments', disk', k).res = "ok"
                    /\ LogRead(segments', disk', k).rec = r.rec ]_vars

C15_Witness ==
    /\ alive /\ last.op = "append" /\ last.res = "full"
    /\ Len(appended) >= 2 /\ active + 1 = Len(segments)
    /\ segments[active + 1].store.size >
           (LEN_WIDTH * (segments[active + 1].index.size \div ENTRY_WIDTH)) + 6
    /\ LogRead(segments, disk, highest_offset(segments).off).res = "ok"

(***************************************************************************)
(* C16: whenever Index::write stores an entry at bytes [size, size + 12)   *)
(* of the map, the index file is at least size + 12 bytes long, also when  *)
(* the append is issued after Log::close.                                  *)
(***************************************************************************)
C16_WriteWithinFile ==
    [][ (last'.op = "append" /\ last'.res \in {"ok", "fault"}) =>
          FileOf(disk, segments[active + 1].base_offset).ilen
              >= segments[active + 1].index.size + ENTRY_WIDTH ]_vars

(***************************************************************************)
(* C17: after Index::close the index file is size bytes long, size being   *)
(* 12 times the number of entries, and close is idempotent: a further      *)
(* close (explicit, or the one made by Drop) changes neither the files nor *)
(* the sizes.                                                              *)
(***************************************************************************)
C17_CloseLength ==
    [][ last'.op = "close" =>
          /\ Len(segments') = Len(segments)
          /\ \A i \in 1..Len(segments') :
                /\ segments'[i].index.size = segments[i].index.size
                /\ segments'[i].index.size % ENTRY_WIDTH = 0
                /\ FileOf(disk', segments'[i].base_offset).ilen = segments'[i].index.size
          /\ \A keep \in BOOLEAN :
                /\ CloseAll(segments', disk', keep) = disk'
                /\ ClosedSegs(segments', disk', keep) = segments' ]_vars

C17_Witness ==
    /\ alive /\ last.op = "close" /\ Len(segments) >= 2
    /\ \E i \in 1..Len(segments) :
          /\ segments[i].index.size > 0
          /\ segments[i].index.size < segments[i].index.mmap_len
          /\ disk[segments[i].base_offset].ilen = segments[i].index.size

(***************************************************************************)
(* C18: in every reachable state every segment has                         *)
(* next_offset = base_offset + index size / 12.                            *)
(***************************************************************************)
C18_NextOffsetCountsEntries ==
    \A i \in 1..Len(segments) :
        segments[i].next_offset =
            segments[i].base_offset + (segments[i].index.size \div ENTRY_WIDTH)

(***************************************************************************)
(* The process is killed before any close: nothing is flushed or           *)
(* truncated.  Entries stored through the shared map are in the file,      *)
(* bytes still in a BufWriter are lost, and every index file keeps the     *)
(* length max_index_bytes that Index::new gave it.  The same files are     *)
(* what a second handle finds while the first is still open.               *)
(***************************************************************************)
Kill ==
    /\ alive /\ ~mr.open
    /\ alive'    = FALSE
    /\ segments' = <<>>
    /\ active'   = None
    /\ last'     = MkLast("kill", 0, "ok", 0, DefaultRecord)
    /\ onlyAppends' = FALSE
    /\ UNCHANGED <<lock, calls, tstore, tindex, config, disk, mr, drained, appended, ncalls, ub>>

NextKill ==
    \/ \E record \in Records : LogAppend(record)
    \/ \E off \in Offsets : Read(off)
    \/ Kill
    \/ Reopen

SpecKill == Init /\ [][NextKill]_vars

\* the off field of the last whole entry slot of an index file of cap bytes
LastSlotOff(f, cap) ==
    from_le_bytes([j \in 1..OFF_WIDTH |->
                      FileByte(f, ((cap \div ENTRY_WIDTH) - 1) * ENTRY_WIDTH + j - 1)])

(***************************************************************************)
(* C19: a segment opened on an index file that was extended to             *)
(* max_index_bytes and never closed recovers, as index size, the length of *)
(* the file whatever the number of entries written; is_maxed() is then     *)
(* true and next_offset comes from the last slot of the file, not from the *)
(* records appended.                                                       *)
(***************************************************************************)
C19_UncleanRecovery ==
    [][ (last.op = "kill" /\ last'.op = "open") =>
          /\ last'.res = "ok"
          /\ Len(segments') = Cardinality(DOMAIN disk)
          /\ \A i \in 1..Len(segments') :
                /\ segments'[i].base_offset \in DOMAIN disk
                /\ disk[segments'[i].base_offset].ilen = Cfg.max_index_bytes
                /\ segments'[i].index.size = Cfg.max_index_bytes
                /\ is_maxed(segments'[i], Cfg)
                /\ segments'[i].next_offset =
                       segments'[i].base_offset
                           + LastSlotOff(disk[segments'[i].base_offset],
                                         Cfg.max_index_bytes) + 1 ]_vars

C19_Witness ==
    /\ alive /\ last.op = "open" /\ Len(appended) >= 1
    /\ \E i \in 1..Len(segments) :
          /\ segments[i].index.size = Cfg.max_index_bytes
          /\ is_maxed(segments[i], Cfg)
          /\ segments[i].next_offset = segments[i].base_offset + 1
          /\ \A m \in 1..Len(appended) : appended[m].off # segments[i].base_offset

(***************************************************************************)
(* An Index on a fresh file of its own, driven as test_index drives it:    *)
(* any sequence of Index::write and Index::read.  tindex.hist holds the    *)
(* entries written successfully, in order.                                 *)
(***************************************************************************)
IndexCaps == {12, 30, 40}
EntryOffs == {0, 1, 300}
EntryPoss == {0, 10, 70000}
ReadArgs  == -1..3

\* Index::new on an empty file
InitIndex ==
    /\ NoLog
    /\ tstore = NoStore
    /\ \E cap \in IndexCaps : \E n \in {IndexNew(NoFile, [max_index_bytes |-> cap])} :
          tindex = [open  |-> TRUE,
                    index |-> n.index,
                    file  |-> n.file,
                    hist  |-> <<>>,
                    last  |-> [op |-> "new", arg |-> 0, res |-> "ok", off |-> 0, pos |-> 0]]

\* Index::write
TIndexWrite(off, pos) ==
    /\ tindex.open
    /\ \E r \in {IndexWrite(tindex.index, tindex.file, off, pos, TRUE)} :
          tindex' = [tindex EXCEPT
                        !.index = r.index,
                        !.file  = r.file,
                        !.hist  = IF r.res = "ok"
                                  THEN Append(@, [off |-> off, pos |-> pos]) ELSE @,
                        !.last  = [op |-> "write", arg |-> 0, res |-> r.res,
                                   off |-> off, pos |-> pos]]
    /\ UNCHANGED <<logvars, tstore>>

\* Index::read
TIndexRead(arg) ==
    /\ tindex.open
    /\ \E r \in {IndexRead(tindex.index, tindex.file, arg)} :
          tindex' = [tindex EXCEPT
                        !.last = [op |-> "read", arg |-> arg, res |-> r.res,
                                  off |-> r.off, pos |-> r.pos]]
    /\ UNCHANGED <<logvars, tstore>>

NextIndex ==
    \/ \E off \in EntryOffs : \E pos \in EntryPoss : TIndexWrite(off, pos)
    \/ \E arg \in ReadArgs : TIndexRead(arg)

SpecIndex == InitIndex /\ [][NextIndex]_vars

(***************************************************************************)
(* C20: on an Index on which e_0 .. e_(n-1) were written in order, read(i) *)
(* returns e_i for 0 <= i < n, read(-1) returns e_(n-1), size() = 12 * n,  *)
(* and every read on an index with n = 0 fails.                            *)
(***************************************************************************)
C20_IndexReadsEntries ==
    tindex.open =>
        /\ tindex.index.size = ENTRY_WIDTH * Len(tindex.hist)
        /\ \A i \in 1..Len(tindex.hist) :
              /\ IndexRead(tindex.index, tindex.file, i - 1)
                     = [res |-> "ok", off |-> tindex.hist[i].off, pos |-> tindex.hist[i].pos]
              /\ (tindex.last.op = "read" /\ tindex.last.arg = i - 1) =>
                     /\ tindex.last.res = "ok"
                     /\ tindex.last.off = tindex.hist[i].off
                     /\ tindex.last.pos = tindex.hist[i].pos
        /\ tindex.hist # <<>> =>
              /\ IndexRead(tindex.index, tindex.file, -1)
                     = [res |-> "ok", off |-> tindex.hist[Len(tindex.hist)].off,
                        pos |-> tindex.hist[Len(tindex.hist)].pos]
              /\ (tindex.last.op = "read" /\ tindex.last.arg = -1) =>
                     /\ tindex.last.res = "ok"
                     /\ tindex.last.off = tindex.hist[Len(tindex.hist)].off
                     /\ tindex.last.pos = tindex.hist[Len(tindex.hist)].pos
        /\ tindex.hist = <<>> =>
              /\ \A arg \in ReadArgs :
                    IndexRead(tindex.index, tindex.file, arg).res # "ok"
              /\ tindex.last.op = "read" => tindex.last.res # "ok"

C20_Witness ==
    /\ tindex.open /\ Len(tindex.hist) = 3
    /\ tindex.hist[1] = [off |-> 300, pos |-> 70000]
    /\ tindex.hist[3] = [off |-> 1, pos |-> 10]
    /\ tindex.last = [op |-> "read", arg |-> -1, res |-> "ok", off |-> 1, pos |-> 10]

(***************************************************************************)
(* C21: every MultiReader::read call terminates; the bytes it returns are  *)
(* taken from one reader only, the front-most reader of the queue that is  *)
(* not exhausted, every exhausted reader before it having been popped and  *)
(* no reader after it touched; it returns 0 only with the queue empty; and *)
(* once a call has returned 0, every later call returns 0.                 *)
(***************************************************************************)
\* the position in queue q of the front-most reader with bytes left, or
\* Len(q) + 1
FirstLive(q, segs, d) ==
    LET live == {k \in 1..Len(q) : q[k].off < Len(StoreBytes(segs, d, q[k].seg))}
    IN  IF live = {} THEN Len(q) + 1
        ELSE CHOOSE k \in live : \A j \in live : k <= j

C21_Returned ==
    (alive /\ mr.open /\ mr.call.pc = "ret") =>
        LET c  == mr.call
            k  == FirstLive(c.at, segments, disk)
        IN  /\ IF c.n > 0 /\ k <= Len(c.at)
               THEN /\ c.data = StoreReadAt(StoreBytes(segments, disk, c.at[k].seg),
                                            c.n, c.at[k].off)
                    /\ c.data # <<>>
                    /\ mr.inner = <<[c.at[k] EXCEPT !.off = @ + Len(c.data)]>>
                                   \o SubSeq(c.at, k + 1, Len(c.at))
               ELSE c.data = <<>>
            /\ c.data = <<>> => mr.inner = <<>>
            /\ c.zero => c.data = <<>>

C21_MultiReaderRead ==
    /\ [](C21_Returned)
    /\ (mr.open /\ mr.call.pc = "loop") ~> (mr.open /\ mr.call.pc = "ret")

\* a call that met an exhausted reader, popped it and returned bytes of the
\* reader behind it
C21_Witness ==
    /\ alive /\ mr.open /\ mr.call.pc = "ret"
    /\ mr.call.data # <<>>
    /\ Len(mr.call.at) > Len(mr.inner)
    /\ mr.call.at[1].off > 0

(***************************************************************************)
(* C22: right after every successful Log::append the last segment is not   *)
(* maxed and every earlier segment is maxed; a new empty segment with      *)
(* base_offset = returned offset + 1 has been added and made active if and *)
(* only if the segment that received the record is maxed after the append. *)
(***************************************************************************)
\* this step is a Log::append that returned Ok
AppendedOk == ncalls' = ncalls + 1 /\ last'.res = "ok"

\* this step added an empty segment at the offset after the returned one and
\* made it active
Rotated ==
    /\ Len(segments') = Len(segments) + 1
    /\ active' = Len(segments') - 1
    /\ LET s == segments'[Len(segments')]
       IN  /\ s.base_offset = last'.off + 1
           /\ s.next_offset = s.base_offset
           /\ s.store.size = 0 /\ s.index.size = 0

\* store size >= max_store_bytes or index size >= max_index_bytes
AtCap(s) ==
    \/ s.store.size >= Cfg.max_store_bytes
    \/ s.index.size >= Cfg.max_index_bytes

C22_RotateWhenMaxed ==
    [][AppendedOk =>
          /\ Rotated <=> AtCap(segments'[active + 1])
          /\ ~Rotated => (Len(segments') = Len(segments) /\ active' = active)
          /\ ~AtCap(segments'[Len(segments')])
          /\ \A i \in 1..(Len(segments') - 1) : AtCap(segments'[i])]_vars

\* an append has filled its segment through the index cap alone, and its
\* record is followed by an empty active segment
C22_Witness ==
    /\ alive /\ last.op = "append" /\ last.res = "ok"
    /\ Len(segments) >= 2 /\ active = Len(segments) - 1
    /\ segments[Len(segments)].base_offset = last.off + 1
    /\ segments[Len(segments)].store.size = 0
    /\ \E i \in 1..(Len(segments) - 1) :
           /\ segments[i].index.size >= Cfg.max_index_bytes
           /\ segments[i].store.size < Cfg.max_store_bytes

(***************************************************************************)
(* Callers of one Log.  A method call borrows the Log as its receiver says *)
(* (&mut self: no other call may be in progress; &self: no &mut self call  *)
(* may be), then takes its side of Log.lock, runs its body and returns,    *)
(* which drops the guard and ends the borrow.  The bodies are the actions  *)
(* of Spec; here only who is inside which method is followed.              *)
(***************************************************************************)
Mutators == {"append", "truncate", "close"}
Readers  == {"read", "lowest_offset", "highest_offset"}

\* the side of Log.lock a method takes: append uses get_mut, which locks
\* nothing
LockSide(op) ==
    CASE op = "append"            -> "none"
      [] op \in {"truncate", "close"} -> "write"
      [] OTHER                    -> "read"

\* the receiver of a method
Receiver(op) == IF op \in Mutators THEN "&mut self" ELSE "&self"

\* faulty variant: every method takes &self
CallShared(t, op) ==
    /\ calls[t].pc = "idle"
    /\ calls' = [calls EXCEPT ![t] = [op |-> op, pc |-> "lock"]]
    /\ UNCHANGED <<config, disk, alive, segments, active, mr, drained, appended,
                   ncalls, last, onlyAppends, ub, lock, tstore, tindex>>

\* caller t enters method op: the borrow of the receiver
Call(t, op) ==
    /\ calls[t].pc = "idle"
    /\ \A u \in Callers \ {t} :
           \/ calls[u].pc = "idle"
           \/ Receiver(op) = "&self" /\ Receiver(calls[u].op) = "&self"
    /\ calls' = [calls EXCEPT ![t] = [op |-> op, pc |-> "lock"]]
    /\ UNCHANGED <<config, disk, alive, segments, active, mr, drained, appended,
                   ncalls, last, onlyAppends, ub, lock, tstore, tindex>>

\* lock.read(), lock.write() or lock.get_mut(): t waits until the lock
\* can be taken
Acquire(t) ==
    /\ calls[t].pc = "lock"
    /\ CASE LockSide(calls[t].op) = "read" ->
               /\ ~lock.writer
               /\ lock' = [lock EXCEPT !.readers = @ + 1]
         [] LockSide(calls[t].op) = "write" ->
               /\ ~lock.writer /\ lock.readers = 0
               /\ lock' = [lock EXCEPT !.writer = TRUE]
         [] OTHER -> lock' = lock
    /\ calls' = [calls EXCEPT ![t].pc = "body"]
    /\ UNCHANGED <<config, disk, alive, segments, active, mr, drained, appended,
                   ncalls, last, onlyAppends, ub, tstore, tindex>>

\* the method returns: the guard _l is dropped and the borrow ends
Return(t) ==
    /\ calls[t].pc = "body"
    /\ lock' = CASE LockSide(calls[t].op) = "read"  -> [lock EXCEPT !.readers = @ - 1]
                 [] LockSide(calls[t].op) = "write" -> [lock EXCEPT !.writer = FALSE]
                 [] OTHER -> lock
    /\ calls' = [calls EXCEPT ![t] = [op |-> "none", pc |-> "idle"]]
    /\ UNCHANGED <<config, disk, alive, segments, active, mr, drained, appended,
                   ncalls, last, onlyAppends, ub, tstore, tindex>>

NextCalls ==
    \/ \E t \in Callers : \E op \in Mutators \cup Readers : Call(t, op)
    \/ \E t \in Callers : Acquire(t)
    \/ \E t \in Callers : Return(t)

SpecCalls == Init /\ [][NextCalls]_vars

(***************************************************************************)
(* C23: while the body of append, truncate or close runs, no other call is *)
(* in its body: neither a read, lowest_offset or highest_offset nor        *)
(* another mutating call.  So a read never runs beside a truncate or an    *)
(* append.                                                                 *)
(***************************************************************************)
InBody(t) == calls[t].pc = "body"

C23_MutatorsExclude ==
    \A t \in Callers : \A u \in Callers \ {t} :
        (InBody(t) /\ calls[t].op \in Mutators) => ~InBody(u)

\* a truncate is in its body, holding the write side of the lock, and every
\* other caller is outside the Log
C23_Witness ==
    \E t \in Callers :
        /\ InBody(t) /\ calls[t].op = "truncate" /\ lock.writer
        /\ \A u \in Callers \ {t} : calls[u].pc = "idle"

====
